---- MODULE Spec2Model ----
(***************************************************************************)
(* BLS signatures of libindy-crypto (src/libindy-crypto/src/bls/mod.rs)    *)
(* over the pairing layer (src/libindy-crypto/src/pair/amcl.rs).           *)
(*                                                                         *)
(* The arithmetic kernel (BIG, ECP, ECP2, FP12, ate, fexp, g1mul, g2mul)   *)
(* is an external crate.  It is instantiated here on a small curve of the  *)
(* same shape as the library's BN curve: y^2 = x^3 + 2 over F_19, a group  *)
(* of prime order 13 with cofactor 1 and base point (p-1, 1).  Byte        *)
(* strings are sequences of 0..255 and MODBYTES is two bytes.  G2 is a     *)
(* second copy of the group with its own base point and a four-coordinate  *)
(* encoding; the pairing sends (a*G1Base, b*G2Base) to the exponent a*b.   *)
(* The digests SHA-256 and Keccak-256 are two different fixed mixing       *)
(* functions of the message bytes.                                         *)
(***************************************************************************)
EXTENDS Integers, Sequences, FiniteSets, TLC

\* ------------------------------------------------------------------------
\* Curve parameters (amcl::rom)

MODBYTES == 2

Modulus == 19

CURVE_B == 2

CURVE_ORDER == 13

CURVE_GX == Modulus - 1

CURVE_GY == 1

CURVE_PXA == 4

CURVE_PXB == 0

CURVE_PYA == 16

CURVE_PYB == 0

\* ------------------------------------------------------------------------
\* Results

Ok(v) == [ok |-> TRUE, val |-> v]

InvalidStructure == "InvalidStructure"

Err(e) == [ok |-> FALSE, err |-> e]

\* ToErrorCode for IndyCryptoError
CommonInvalidStructure == 113

to_error_code(err) == CASE err = InvalidStructure -> CommonInvalidStructure

\* ------------------------------------------------------------------------
\* BIG: non-negative integers; byte strings are big-endian

ByteBase == 256

RECURSIVE BIG_frombytes(_)
BIG_frombytes(b) ==
    IF Len(b) = 0 THEN 0
    ELSE BIG_frombytes(SubSeq(b, 1, Len(b) - 1)) * ByteBase + b[Len(b)]

RECURSIVE ToBytesLen(_, _)
ToBytesLen(n, len) ==
    IF len = 0 THEN <<>>
    ELSE Append(ToBytesLen(n \div ByteBase, len - 1), n % ByteBase)

\* BIG::tobytes writes the low MODBYTES bytes of the value
BIG_tobytes(n) == ToBytesLen(n, MODBYTES)

Zeros(len) == [i \in 1..len |-> 0]

\* ------------------------------------------------------------------------
\* FP: the field of the curve

RECURSIVE FpPow(_, _)
FpPow(a, e) ==
    IF e = 0 THEN 1
    ELSE LET h == FpPow(a, e \div 2)
             s == (h * h) % Modulus
         IN  IF e % 2 = 1 THEN (s * (a % Modulus)) % Modulus ELSE s

FpInvTable == [a \in 0..(Modulus - 1) |-> FpPow(a, Modulus - 2)]

FpInv(a) == FpInvTable[a % Modulus]

\* Modulus = 3 mod 4: the square root is the (p+1)/4-th power
FpSqrt(a) == FpPow(a, (Modulus + 1) \div 4)

FpIsSquare(a) == FpPow(a, (Modulus - 1) \div 2) = 1

FpSub(a, b) == ((a % Modulus) + Modulus - (b % Modulus)) % Modulus

\* ------------------------------------------------------------------------
\* ECP: points of y^2 = x^3 + CURVE_B, affine, with the identity

ECP_inf == [inf |-> TRUE, x |-> 0, y |-> 0]

Affine(x, y) == [inf |-> FALSE, x |-> x, y |-> y]

RHS(x) == (x * x * x + CURVE_B) % Modulus

OnCurve(x, y) == (y * y) % Modulus = RHS(x)

\* ECP::new_bigs: the point (x, y), or the identity when it is not on the curve
ECP_new_bigs(x, y) ==
    LET xr == x % Modulus
        yr == y % Modulus
    IN  IF OnCurve(xr, yr) THEN Affine(xr, yr) ELSE ECP_inf

\* ECP::new_big: the point with abscissa x, or the identity when there is none
ECP_new_big(x) ==
    LET xr == x % Modulus
        r  == RHS(xr)
    IN  IF FpIsSquare(r) THEN Affine(xr, FpSqrt(r)) ELSE ECP_inf

CurvePoints ==
    {ECP_inf} \cup
    {Affine(x, y) : <<x, y>> \in
        {c \in (0..(Modulus - 1)) \X (0..(Modulus - 1)) : OnCurve(c[1], c[2])}}

ECP_neg(P) == IF P.inf THEN P ELSE Affine(P.x, (Modulus - P.y) % Modulus)

EcpAddRaw(P, Q) ==
    IF P.inf THEN Q
    ELSE IF Q.inf THEN P
    ELSE IF P.x = Q.x /\ (P.y + Q.y) % Modulus = 0 THEN ECP_inf
    ELSE LET l  == IF P.x = Q.x
                   THEN (3 * P.x * P.x * FpInv(2 * P.y)) % Modulus
                   ELSE (FpSub(Q.y, P.y) * FpInv(FpSub(Q.x, P.x))) % Modulus
             x3 == FpSub(FpSub(l * l, P.x), Q.x)
             y3 == FpSub(l * FpSub(P.x, x3), P.y)
         IN  Affine(x3, y3)

EcpAddTable == [P \in CurvePoints |-> [Q \in CurvePoints |-> EcpAddRaw(P, Q)]]

ECP_add(P, Q) == EcpAddTable[P][Q]

ECP_sub(P, Q) == ECP_add(P, ECP_neg(Q))

\* scalar multiplication by a BIG (not reduced first): double and add
RECURSIVE EcpMul(_, _)
EcpMul(P, k) ==
    IF k = 0 THEN ECP_inf
    ELSE LET h == EcpMul(P, k \div 2)
             d == ECP_add(h, h)
         IN  IF k % 2 = 1 THEN ECP_add(d, P) ELSE d

\* ECP::tobytes writes the marker and the two coordinates, 2 * MODBYTES + 1 bytes
ECP_tobytes(P) == <<4>> \o BIG_tobytes(P.x) \o BIG_tobytes(P.y)

\* ECP::frombytes: the identity unless the marker is there and (x, y) is on the curve
ECP_frombytes(b) ==
    IF b[1] = 4
    THEN ECP_new_bigs(BIG_frombytes(SubSeq(b, 2, MODBYTES + 1)),
                      BIG_frombytes(SubSeq(b, MODBYTES + 2, 2 * MODBYTES + 1)))
    ELSE ECP_inf

\* ------------------------------------------------------------------------
\* ECP2: the second group, coordinates (xa, xb), (ya, yb); its points have
\* xb = yb = 0 and (xa, ya) on the curve

ECP2_inf == ECP_inf

ECP2_new_fp2s(xa, xb, ya, yb) ==
    IF xb % Modulus = 0 /\ yb % Modulus = 0 THEN ECP_new_bigs(xa, ya) ELSE ECP2_inf

ECP2_add(P, Q) == ECP_add(P, Q)

ECP2_sub(P, Q) == ECP_sub(P, Q)

ECP2_tobytes(P) ==
    BIG_tobytes(P.x) \o BIG_tobytes(0) \o BIG_tobytes(P.y) \o BIG_tobytes(0)

ECP2_frombytes(b) ==
    ECP2_new_fp2s(BIG_frombytes(SubSeq(b, 1, MODBYTES)),
                  BIG_frombytes(SubSeq(b, MODBYTES + 1, 2 * MODBYTES)),
                  BIG_frombytes(SubSeq(b, 2 * MODBYTES + 1, 3 * MODBYTES)),
                  BIG_frombytes(SubSeq(b, 3 * MODBYTES + 1, 4 * MODBYTES)))

\* ------------------------------------------------------------------------
\* pair: g1mul, g2mul, ate, fexp.  An FP12 value is the exponent of a fixed
\* generator of GT.

g1mul(P, e) == EcpMul(P, e)

g2mul(P, e) == EcpMul(P, e)

G1Base == ECP_new_bigs(CURVE_GX, CURVE_GY)

G2Base == ECP2_new_fp2s(CURVE_PXA, CURVE_PXB, CURVE_PYA, CURVE_PYB)

G1Log == [P \in CurvePoints |->
            CHOOSE k \in 0..(CURVE_ORDER - 1) : EcpMul(G1Base, k) = P]

G2Log == [Q \in CurvePoints |->
            CHOOSE k \in 0..(CURVE_ORDER - 1) : EcpMul(G2Base, k) = Q]

\* fexp(ate(Q, P)), reduced
fexp_ate(Q, P) == (G1Log[P] * G2Log[Q]) % CURVE_ORDER

FP12_mul(a, b) == (a + b) % CURVE_ORDER

gtpow(a, e) == (a * e) % CURVE_ORDER

FP12_conj(a) == (CURVE_ORDER - a) % CURVE_ORDER

\* ------------------------------------------------------------------------
\* rand and digests

\* BIG::randomnum(CURVE_ORDER, rng) of a generator seeded with `seed`
SeededRandomNum(seed) == (BIG_frombytes(seed) * 5 + 3) % CURVE_ORDER

RECURSIVE Mix(_, _, _, _)
Mix(m, h, a, c) ==
    IF Len(m) = 0 THEN h
    ELSE Mix(Tail(m), (h * a + Head(m) + c) % (ByteBase * ByteBase), a, c)

\* Digests are MODBYTES bytes long, as SHA-256 and Keccak-256 are on the BN
\* curve.  The two mixing functions are chosen so that, on the byte strings
\* the sessions hash, no two of their values lead to the same point of G1
\* (the collision resistance the library assumes of its digests).
Sha256(m) == BIG_tobytes(Mix(m, 7, 31, 1))

Keccak256(m) == BIG_tobytes(Mix(m, 11, 41, 3))

Digest(hasher, m) == IF hasher = "Sha256" THEN Sha256(m) ELSE Keccak256(m)

\* ========================================================================
\* pair/amcl.rs

\* ---- GroupOrderElement { bn: BIG } ----

GroupOrderElement(bn) == [bn |-> bn]

\* GroupOrderElement::new: `rnd` is what random_mod_order returned
GroupOrderElement_new(rnd) == GroupOrderElement(rnd)

\* defect: the seed test of from_bytes, which lets shorter seeds through
GroupOrderElement_new_from_seed_AtMost(seed) ==
    IF Len(seed) > MODBYTES THEN Err(InvalidStructure)
    ELSE Ok(GroupOrderElement(SeededRandomNum(seed)))

GroupOrderElement_new_from_seed(seed) ==
    IF Len(seed) # MODBYTES THEN Err(InvalidStructure)
    ELSE Ok(GroupOrderElement(SeededRandomNum(seed)))

GroupOrderElement_to_bytes(e) == BIG_tobytes(e.bn)

\* defect: the zero bytes are appended to a short input, not put before it
GroupOrderElement_from_bytes_RightPad(b) ==
    IF Len(b) > MODBYTES THEN Err(InvalidStructure)
    ELSE Ok(GroupOrderElement(BIG_frombytes(b \o Zeros(MODBYTES - Len(b)))))

GroupOrderElement_from_bytes(b) ==
    IF Len(b) > MODBYTES THEN Err(InvalidStructure)
    ELSE IF Len(b) < MODBYTES
         THEN Ok(GroupOrderElement(BIG_frombytes(Zeros(MODBYTES - Len(b)) \o b)))
         ELSE Ok(GroupOrderElement(BIG_frombytes(b)))

\* BIG arithmetic of the kernel, on integers.  BIG::sub does not reduce: the
\* difference of two values can be negative.
BIG_sub(a, b) == a - b

BIG_rmod(a, m) == a % m

\* BIG::modneg(a, m): the negation of a modulo m
BIG_modneg(a, m) == (m - BIG_rmod(a, m)) % m

BIG_modmul(a, b, m) == (BIG_rmod(a, m) * BIG_rmod(b, m)) % m

RECURSIVE BIG_powmod(_, _, _)
BIG_powmod(a, e, m) ==
    IF e = 0 THEN 1 % m
    ELSE BIG_modmul(a, BIG_powmod(a, e - 1, m), m)

\* BIG::invmodp(m): the inverse of a modulo the prime m; of a multiple of m
\* the kernel leaves a value that is no inverse, here 0
BIG_invmodp(a, m) ==
    IF BIG_rmod(a, m) = 0 THEN 0
    ELSE CHOOSE b \in 1..(m - 1) : (BIG_rmod(a, m) * b) % m = 1

\* (GroupOrderElement ^ GroupOrderElement) mod GroupOrder
GroupOrderElement_pow_mod(self, e) ==
    Ok(GroupOrderElement(BIG_powmod(self.bn, e.bn, CURVE_ORDER)))

\* (GroupOrderElement + GroupOrderElement) mod GroupOrder
GroupOrderElement_add_mod(self, r) ==
    Ok(GroupOrderElement(BIG_rmod(self.bn + r.bn, CURVE_ORDER)))

\* (GroupOrderElement - GroupOrderElement) mod GroupOrder: modneg of the
\* difference when it is below zero, the difference as it is otherwise
GroupOrderElement_sub_mod(self, r) ==
    LET diff == BIG_sub(self.bn, r.bn)
    IN  IF diff < 0
        THEN Ok(GroupOrderElement(BIG_modneg(diff, CURVE_ORDER)))
        ELSE Ok(GroupOrderElement(diff))

\* defect: the product is computed as the sum
GroupOrderElement_mul_mod_Add(self, r) ==
    Ok(GroupOrderElement(BIG_rmod(self.bn + r.bn, CURVE_ORDER)))

\* (GroupOrderElement * GroupOrderElement) mod GroupOrder
GroupOrderElement_mul_mod(self, r) ==
    Ok(GroupOrderElement(BIG_modmul(self.bn, r.bn, CURVE_ORDER)))

\* 1 / GroupOrderElement
GroupOrderElement_inverse(self) ==
    Ok(GroupOrderElement(BIG_invmodp(self.bn, CURVE_ORDER)))

\* - GroupOrderElement mod GroupOrder
GroupOrderElement_mod_neg(self) ==
    Ok(GroupOrderElement(BIG_modneg(self.bn, CURVE_ORDER)))

\* #[derive(PartialEq)]: two elements are equal when their BIGs are
GroupOrderElement_eq(a, b) == a.bn = b.bn

\* ---- PointG1 { point: ECP } ----

PointG1_BYTES_REPR_SIZE == MODBYTES * 4

PointG1_new(rnd) == g1mul(G1Base, rnd)

PointG1_new_inf == ECP_inf

PointG1_is_inf(p) == p.inf

PointG1_mul(p, e) == g1mul(p, e.bn)

PointG1_add(p, q) == ECP_add(p, q)

\* defect: sub adds the point, without negating it
PointG1_sub_NoNeg(p, q) == ECP_add(p, q)

PointG1_sub(p, q) == ECP_sub(p, q)

PointG1_neg(p) == ECP_neg(p)

\* vec![0u8; BYTES_REPR_SIZE], of which ECP::tobytes fills the front
PointG1_to_bytes(p) ==
    ECP_tobytes(p) \o Zeros(PointG1_BYTES_REPR_SIZE - (2 * MODBYTES + 1))

\* defect: the length test uses the length ECP::tobytes fills
PointG1_from_bytes_ShortSize(b) ==
    IF Len(b) # 2 * MODBYTES + 1 THEN Err(InvalidStructure)
    ELSE Ok(ECP_frombytes(b))

PointG1_from_bytes(b) ==
    IF Len(b) # PointG1_BYTES_REPR_SIZE THEN Err(InvalidStructure)
    ELSE Ok(ECP_frombytes(b))

\* the loop of from_hash: increment until ECP::new_big gives a point
RECURSIVE FromHashLoop(_)
FromHashLoop(bn) ==
    LET point == ECP_new_big(bn)
    IN  IF point.inf THEN FromHashLoop(bn + 1) ELSE point

\* defect: the point of the first abscissa is returned, the identity included
PointG1_from_hash_NoRetry(hash) ==
    LET el == GroupOrderElement_from_bytes(hash)
    IN  IF ~el.ok THEN el ELSE Ok(ECP_new_big(el.val.bn))

PointG1_from_hash(hash) ==
    LET el == GroupOrderElement_from_bytes(hash)
    IN  IF ~el.ok THEN el ELSE Ok(FromHashLoop(el.val.bn))

\* ---- PointG2 { point: ECP2 } ----

PointG2_BYTES_REPR_SIZE == MODBYTES * 4

PointG2_new(rnd) == g2mul(G2Base, rnd)

PointG2_new_inf == ECP2_inf

PointG2_add(p, q) == ECP2_add(p, q)

PointG2_sub(p, q) == ECP2_sub(p, q)

PointG2_mul(p, e) == g2mul(p, e.bn)

PointG2_to_bytes(p) == ECP2_tobytes(p)

\* defect: `<` for `!=` in the length test
PointG2_from_bytes_AtLeast(b) ==
    IF Len(b) < PointG2_BYTES_REPR_SIZE THEN Err(InvalidStructure)
    ELSE Ok(ECP2_frombytes(b))

PointG2_from_bytes(b) ==
    IF Len(b) # PointG2_BYTES_REPR_SIZE THEN Err(InvalidStructure)
    ELSE Ok(ECP2_frombytes(b))

\* ---- Pair { pair: FP12 } ----

Pair_pair(p, q) == [pair |-> fexp_ate(q, p)]

Pair_mul(a, b) == [pair |-> FP12_mul(a.pair, b.pair)]

Pair_pow(a, b) == [pair |-> gtpow(a.pair, b.bn)]

\* defect: the copy is returned without conjugating it
Pair_inverse_NoConj(a) == [pair |-> a.pair]

Pair_inverse(a) == [pair |-> FP12_conj(a.pair)]

\* ========================================================================
\* bls/mod.rs

\* ---- Generator { point: PointG2, bytes } ----

Generator_new(rnd) ==
    LET point == PointG2_new(rnd)
    IN  Ok([point |-> point, bytes |-> PointG2_to_bytes(point)])

Generator_from_bytes(bytes) ==
    LET point == PointG2_from_bytes(bytes)
    IN  IF ~point.ok THEN point ELSE Ok([point |-> point.val, bytes |-> bytes])

\* ---- SignKey { group_order_element, bytes } ----

\* Option<&[u8]>
None == [some |-> FALSE]

Some(v) == [some |-> TRUE, val |-> v]

\* SignKey::new(seed): `seed` is None or Some(bytes); `rnd` is the random draw
SignKey_new(seed, rnd) ==
    LET goe == IF seed.some THEN GroupOrderElement_new_from_seed(seed.val)
               ELSE Ok(GroupOrderElement_new(rnd))
    IN  IF ~goe.ok THEN goe
        ELSE Ok([group_order_element |-> goe.val,
                 bytes |-> GroupOrderElement_to_bytes(goe.val)])

SignKey_from_bytes(bytes) ==
    LET goe == GroupOrderElement_from_bytes(bytes)
    IN  IF ~goe.ok THEN goe
        ELSE Ok([group_order_element |-> goe.val, bytes |-> bytes])

\* ---- VerKey { point: PointG2, bytes } ----

VerKey_new(gen, sign_key) ==
    LET point == PointG2_mul(gen.point, sign_key.group_order_element)
    IN  Ok([point |-> point, bytes |-> PointG2_to_bytes(point)])

VerKey_from_bytes(bytes) ==
    LET point == PointG2_from_bytes(bytes)
    IN  IF ~point.ok THEN point ELSE Ok([point |-> point.val, bytes |-> bytes])

\* ---- Bls private helpers ----

Bls_hash(message, hasher) == PointG1_from_hash(Digest(hasher, message))

Bls_gen_signature(message, sign_key, hasher) ==
    LET h == Bls_hash(message, hasher)
    IN  IF ~h.ok THEN h ELSE Ok(PointG1_mul(h.val, sign_key.group_order_element))

\* defect: a mismatch is reported as an error
Bls_verify_signature_ErrOnMismatch(signature, message, ver_key, gen, hasher) ==
    LET h == Bls_hash(message, hasher)
    IN  IF ~h.ok THEN h
        ELSE IF Pair_pair(signature, gen.point) = Pair_pair(h.val, ver_key)
             THEN Ok(TRUE)
             ELSE Err(InvalidStructure)

Bls_verify_signature(signature, message, ver_key, gen, hasher) ==
    LET h == Bls_hash(message, hasher)
    IN  IF ~h.ok THEN h
        ELSE Ok(Pair_pair(signature, gen.point) = Pair_pair(h.val, ver_key))

\* ---- ProofOfPossession, Signature, MultiSignature { point: PointG1, bytes } ----

G1Wrapper(point) ==
    IF ~point.ok THEN point
    ELSE Ok([point |-> point.val, bytes |-> PointG1_to_bytes(point.val)])

G1Wrapper_from_bytes(bytes) ==
    LET point == PointG1_from_bytes(bytes)
    IN  IF ~point.ok THEN point ELSE Ok([point |-> point.val, bytes |-> bytes])

ProofOfPossession_new(ver_key, sign_key) ==
    G1Wrapper(Bls_gen_signature(ver_key.bytes, sign_key, "Keccak256"))

ProofOfPossession_from_bytes(bytes) == G1Wrapper_from_bytes(bytes)

Signature_from_bytes(bytes) == G1Wrapper_from_bytes(bytes)

RECURSIVE SumG1(_)
SumG1(signatures) ==
    IF Len(signatures) = 0 THEN PointG1_new_inf
    ELSE PointG1_add(SumG1(SubSeq(signatures, 1, Len(signatures) - 1)),
                     signatures[Len(signatures)].point)

\* defect: the loop starts at the second signature
MultiSignature_new_SkipFirst(signatures) ==
    G1Wrapper(Ok(SumG1(IF Len(signatures) = 0 THEN signatures ELSE Tail(signatures))))

\* defect: the loop assigns each signature to the point and does not add it
MultiSignature_new_LastOnly(signatures) ==
    G1Wrapper(Ok(IF Len(signatures) = 0 THEN PointG1_new_inf
                 ELSE signatures[Len(signatures)].point))

\* defect: the sum starts at the base point (PointG1::new) and not at the
\* point at infinity (PointG1::new_inf)
MultiSignature_new_FromBase(signatures) ==
    G1Wrapper(Ok(PointG1_add(G1Base, SumG1(signatures))))

MultiSignature_new(signatures) == G1Wrapper(Ok(SumG1(signatures)))

MultiSignature_from_bytes(bytes) == G1Wrapper_from_bytes(bytes)

\* ---- Bls ----

\* defect: sign hashes with the digest of the proof of possession
Bls_sign_Keccak(message, sign_key) ==
    G1Wrapper(Bls_gen_signature(message, sign_key, "Keccak256"))

Bls_sign(message, sign_key) ==
    G1Wrapper(Bls_gen_signature(message, sign_key, "Sha256"))

Bls_verify(signature, message, ver_key, gen) ==
    Bls_verify_signature(signature.point, message, ver_key.point, gen, "Sha256")

\* defect: the proof of possession is checked with the digest of sign
Bls_verify_proof_of_posession_Sha(pop, ver_key, gen) ==
    Bls_verify_signature(pop.point, ver_key.bytes, ver_key.point, gen, "Sha256")

Bls_verify_proof_of_posession(pop, ver_key, gen) ==
    Bls_verify_signature(pop.point, ver_key.bytes, ver_key.point, gen, "Keccak256")

RECURSIVE SumG2(_)
SumG2(ver_keys) ==
    IF Len(ver_keys) = 0 THEN PointG2_new_inf
    ELSE PointG2_add(SumG2(SubSeq(ver_keys, 1, Len(ver_keys) - 1)),
                     ver_keys[Len(ver_keys)].point)

\* defect: only the first ver key enters the aggregated ver key
Bls_verify_multi_sig_FirstKey(multi_sig, message, ver_keys, gen) ==
    LET aggregated_verkey ==
            SumG2(IF Len(ver_keys) = 0 THEN ver_keys ELSE <<ver_keys[1]>>)
    IN  Bls_verify_signature(multi_sig.point, message, aggregated_verkey, gen, "Sha256")

\* defect: an empty list of ver keys is rejected before the pairings
Bls_verify_multi_sig_RejectEmpty(multi_sig, message, ver_keys, gen) ==
    IF Len(ver_keys) = 0 THEN Ok(FALSE)
    ELSE Bls_verify_signature(multi_sig.point, message, SumG2(ver_keys), gen, "Sha256")

\* defect: the loop subtracts each ver key from the aggregated ver key
Bls_verify_multi_sig_Sub(multi_sig, message, ver_keys, gen) ==
    LET aggregated_verkey == PointG2_sub(PointG2_new_inf, SumG2(ver_keys))
    IN  Bls_verify_signature(multi_sig.point, message, aggregated_verkey, gen, "Sha256")

Bls_verify_multi_sig(multi_sig, message, ver_keys, gen) ==
    LET aggregated_verkey == SumG2(ver_keys)
    IN  Bls_verify_signature(multi_sig.point, message, aggregated_verkey, gen, "Sha256")

\* ========================================================================
\* Sessions: the operations run in the order the library's tests run them
\* (generator, sign keys, ver keys, signatures, proofs of possession, then
\* one verification call), on inputs drawn from small sets.

\* random_mod_order returns a value in [0, CURVE_ORDER); the draws are 0..MaxRand
MaxRand == 2

RandomDraws == {k \in 0..MaxRand : k < CURVE_ORDER}

Messages == {<<1, 2, 3, 4, 5>>, <<1, 2, 3, 4, 5, 6>>}

Seeds == {BIG_tobytes(32)}

\* byte strings given to SignKey::from_bytes: values at and above the group order
SignKeyBytes == {BIG_tobytes(CURVE_ORDER), BIG_tobytes(CURVE_ORDER + 1)}

Nil == [nil |-> TRUE]

NoCall == [op |-> "none"]

VARIABLES
    pc,          \* the stage of the session
    nkeys,       \* how many key pairs the session makes
    gen,         \* the Generator
    sks,         \* the SignKeys, in creation order
    vks,         \* vks[i] = VerKey::new(gen, sks[i])
    msg,         \* the message the signers sign
    sigs,        \* sigs[i] = Bls::sign(msg, sks[i])
    pops,        \* pops[i] = ProofOfPossession::new(vks[i], sks[i])
    signers,     \* the signers whose signatures were given to MultiSignature::new
    multi,       \* the MultiSignature
    call         \* the last verification call: its arguments and its result

vars == <<pc, nkeys, gen, sks, vks, msg, sigs, pops, signers, multi, call>>

Start(n) ==
    /\ pc = "gen"
    /\ nkeys = n
    /\ gen = Nil
    /\ sks = <<>>
    /\ vks = <<>>
    /\ msg = <<>>
    /\ sigs = <<>>
    /\ pops = <<>>
    /\ signers = <<>>
    /\ multi = Nil
    /\ call = NoCall

\* let gen = Generator::new().unwrap()
GeneratorNew ==
    /\ pc = "gen"
    /\ \E rnd \in RandomDraws :
          gen' = Generator_new(rnd).val
    /\ pc' = "keys"
    /\ UNCHANGED <<nkeys, sks, vks, msg, sigs, pops, signers, multi, call>>

\* encodings handed to Generator::from_bytes: the all-zero bytes and the
\* encoding of a point of G2
GeneratorBytes ==
    {Zeros(PointG2_BYTES_REPR_SIZE), ECP2_tobytes(g2mul(G2Base, 5))}

\* let gen = Generator::from_bytes(bytes).unwrap()
GeneratorFromBytes ==
    /\ pc = "gen"
    /\ \E bytes \in GeneratorBytes :
          /\ Generator_from_bytes(bytes).ok
          /\ gen' = Generator_from_bytes(bytes).val
    /\ pc' = "keys"
    /\ UNCHANGED <<nkeys, sks, vks, msg, sigs, pops, signers, multi, call>>

AddSignKey(r) ==
    /\ r.ok
    /\ sks' = Append(sks, r.val)
    /\ pc' = IF Len(sks') = nkeys THEN "vers" ELSE "keys"
    /\ UNCHANGED <<nkeys, gen, vks, msg, sigs, pops, signers, multi, call>>

\* SignKey::new(None).unwrap()
SignKeyNew ==
    /\ pc = "keys"
    /\ \E rnd \in RandomDraws : AddSignKey(SignKey_new(None, rnd))

\* SignKey::new(Some(&seed)).unwrap()
SignKeyNewSeed ==
    /\ pc = "keys"
    /\ \E seed \in Seeds : AddSignKey(SignKey_new(Some(seed), 0))

\* SignKey::from_bytes(bytes).unwrap()
SignKeyFromBytes ==
    /\ pc = "keys"
    /\ \E bytes \in SignKeyBytes : AddSignKey(SignKey_from_bytes(bytes))

\* VerKey::new(&gen, &sign_key).unwrap()
VerKeyNew ==
    /\ pc = "vers"
    /\ vks' = Append(vks, VerKey_new(gen, sks[Len(vks) + 1]).val)
    /\ pc' = IF Len(vks') = nkeys THEN "sign" ELSE "vers"
    /\ UNCHANGED <<nkeys, gen, sks, msg, sigs, pops, signers, multi, call>>

\* Bls::sign(&message, &sign_key).unwrap(): every signer signs the same message
Sign ==
    /\ pc = "sign"
    /\ \E m \in Messages :
          /\ sigs = <<>> \/ m = msg
          /\ msg' = m
          /\ sigs' = Append(sigs, Bls_sign(m, sks[Len(sigs) + 1]).val)
    /\ pc' = IF Len(sigs') = nkeys THEN "pops" ELSE "sign"
    /\ UNCHANGED <<nkeys, gen, sks, vks, pops, signers, multi, call>>

\* ProofOfPossession::new(&ver_key, &sign_key).unwrap()
PopNew ==
    /\ pc = "pops"
    /\ pops' = Append(pops,
                      ProofOfPossession_new(vks[Len(pops) + 1], sks[Len(pops) + 1]).val)
    /\ pc' = IF Len(pops') = nkeys THEN "ready" ELSE "pops"
    /\ UNCHANGED <<nkeys, gen, sks, vks, msg, sigs, signers, multi, call>>

\* Bls::verify(&sigs[i], message, &vks[j], &gen)
Verify ==
    /\ pc = "ready"
    /\ \E i \in 1..nkeys, j \in 1..nkeys, message \in Messages :
          call' = [op |-> "verify", sig |-> i, key |-> j, message |-> message,
                   result |-> Bls_verify(sigs[i], message, vks[j], gen)]
    /\ pc' = "done"
    /\ UNCHANGED <<nkeys, gen, sks, vks, msg, sigs, pops, signers, multi>>

\* Bls::verify_proof_of_posession(&pops[i], &vks[j], &gen)
VerifyPop ==
    /\ pc = "ready"
    /\ \E i \in 1..nkeys, j \in 1..nkeys :
          call' = [op |-> "verify_pop", pop |-> i, key |-> j,
                   result |-> Bls_verify_proof_of_posession(pops[i], vks[j], gen)]
    /\ pc' = "done"
    /\ UNCHANGED <<nkeys, gen, sks, vks, msg, sigs, pops, signers, multi>>

\* lists of distinct signers, at most MaxList long
MaxList == 2

SignerLists ==
    {l \in UNION {[1..n -> 1..nkeys] : n \in 0..MaxList} :
        \A i, j \in DOMAIN l : i # j => l[i] # l[j]}

ListOf(objects, list) == [i \in DOMAIN list |-> objects[list[i]]]

\* MultiSignature::new(&signatures).unwrap(), on the signatures of `list`
MultiSignatureNew ==
    /\ pc = "ready"
    /\ \E list \in SignerLists :
          /\ signers' = list
          /\ multi' = MultiSignature_new(ListOf(sigs, list)).val
    /\ pc' = "aggregated"
    /\ UNCHANGED <<nkeys, gen, sks, vks, msg, sigs, pops, call>>

\* Bls::verify_multi_sig(&multi, message, &ver_keys, &gen), on the ver keys of `keys`
VerifyMultiSig ==
    /\ pc = "aggregated"
    /\ \E keys \in SignerLists, message \in Messages :
          call' = [op |-> "verify_multi_sig", keys |-> keys, message |-> message,
                   result |-> Bls_verify_multi_sig(multi, message, ListOf(vks, keys), gen)]
    /\ pc' = "done"
    /\ UNCHANGED <<nkeys, gen, sks, vks, msg, sigs, pops, signers, multi>>

\* the values of each type that the session holds
Values(kind) ==
    CASE kind = "Scalar" -> {sks[i].group_order_element : i \in DOMAIN sks}
      [] kind = "G1" -> {sigs[i].point : i \in DOMAIN sigs}
                            \cup {pops[i].point : i \in DOMAIN pops}
      [] kind = "G2" -> {gen.point} \cup {vks[i].point : i \in DOMAIN vks}
      [] kind = "Generator" -> {gen}
      [] kind = "SignKey" -> {sks[i] : i \in DOMAIN sks}
      [] kind = "VerKey" -> {vks[i] : i \in DOMAIN vks}
      [] kind = "Signature" -> {sigs[i] : i \in DOMAIN sigs}
      [] kind = "MultiSignature" -> IF multi = Nil THEN {} ELSE {multi}
      [] kind = "ProofOfPossession" -> {pops[i] : i \in DOMAIN pops}

Kinds ==
    {"Scalar", "G1", "G2", "Generator", "SignKey", "VerKey", "Signature",
     "MultiSignature", "ProofOfPossession"}

\* x.to_bytes().unwrap(), x.as_bytes()
Encode(kind, x) ==
    CASE kind = "Scalar" -> GroupOrderElement_to_bytes(x)
      [] kind = "G1" -> PointG1_to_bytes(x)
      [] kind = "G2" -> PointG2_to_bytes(x)
      [] OTHER -> x.bytes

\* T::from_bytes(bytes)
Decode(kind, bytes) ==
    CASE kind = "Scalar" -> GroupOrderElement_from_bytes(bytes)
      [] kind = "G1" -> PointG1_from_bytes(bytes)
      [] kind = "G2" -> PointG2_from_bytes(bytes)
      [] kind = "Generator" -> Generator_from_bytes(bytes)
      [] kind = "SignKey" -> SignKey_from_bytes(bytes)
      [] kind = "VerKey" -> VerKey_from_bytes(bytes)
      [] kind = "Signature" -> Signature_from_bytes(bytes)
      [] kind = "MultiSignature" -> MultiSignature_from_bytes(bytes)
      [] kind = "ProofOfPossession" -> ProofOfPossession_from_bytes(bytes)

\* T::from_bytes(x.as_bytes()) and, when that succeeds, the bytes of the result
RoundTrip ==
    /\ pc \in {"ready", "aggregated"}
    /\ \E kind \in Kinds : \E x \in Values(kind) :
          LET decoded == Decode(kind, Encode(kind, x))
          IN  call' = [op |-> "round_trip", kind |-> kind, value |-> x,
                       bytes |-> Encode(kind, x), decoded |-> decoded,
                       reencoded |-> IF decoded.ok THEN Encode(kind, decoded.val)
                                     ELSE <<>>]
    /\ pc' = "done"
    /\ UNCHANGED <<nkeys, gen, sks, vks, msg, sigs, pops, signers, multi>>

\* The session of two key pairs: every constructor, then one call.
Init == Start(2)

Next ==
    \/ GeneratorNew
    \/ GeneratorFromBytes
    \/ SignKeyNew
    \/ SignKeyNewSeed
    \/ SignKeyFromBytes
    \/ VerKeyNew
    \/ Sign
    \/ PopNew
    \/ Verify
    \/ VerifyPop
    \/ MultiSignatureNew
    \/ VerifyMultiSig
    \/ RoundTrip

Spec == Init /\ [][Next]_vars

\* The multi-signature session: three key pairs from SignKey::new(None), their
\* signatures on one message and proofs of possession, an aggregate of some of
\* the signatures and a call of verify_multi_sig on some of the ver keys.
InitMulti == Start(3)

NextMulti ==
    \/ GeneratorNew
    \/ GeneratorFromBytes
    \/ SignKeyNew
    \/ VerKeyNew
    \/ Sign
    \/ PopNew
    \/ MultiSignatureNew
    \/ VerifyMultiSig

SpecMulti == InitMulti /\ [][NextMulti]_vars

\* ========================================================================
\* Calls of the decoders, of new_from_seed and of the scalar operations, on
\* inputs drawn from small sets: one call in each behaviour.

\* byte strings handed to GroupOrderElement::from_bytes and SignKey::from_bytes:
\* shorter than MODBYTES, MODBYTES long (below and above the group order) and
\* longer
ScalarBytes ==
    {<<>>, <<5>>, <<14>>, <<0, 0>>, <<0, 1>>, <<0, 5>>, <<0, 18>>, <<1, 2>>,
     <<0, 0, 1>>, <<1, 2, 3>>}
        \cup SignKeyBytes

\* seeds handed to new_from_seed and SignKey::new(Some(seed))
SeedInputs == {<<>>, <<7>>, <<1, 2>>, <<0, 1, 2>>, <<0, 0, 0, 32>>} \cup Seeds

\* byte strings of other lengths than 4 * MODBYTES, cut from or added to `enc`
OtherLengths(enc) ==
    {<<>>, SubSeq(enc, 1, MODBYTES), SubSeq(enc, 1, 2 * MODBYTES + 1),
     SubSeq(enc, 1, Len(enc) - 1), enc \o <<0>>}

\* byte strings handed to PointG1::from_bytes and the from_bytes of Signature,
\* MultiSignature and ProofOfPossession: the encodings of the points, an
\* encoding with another last byte, coordinates off the curve, a coordinate
\* above the modulus, another first byte, and other lengths
G1Bytes ==
    LET enc == PointG1_to_bytes(G1Base)
        tail == Zeros(PointG1_BYTES_REPR_SIZE - (2 * MODBYTES + 1))
    IN  {PointG1_to_bytes(P) : P \in CurvePoints}
            \cup {[enc EXCEPT ![PointG1_BYTES_REPR_SIZE] = 7],
                  [enc EXCEPT ![1] = 2],
                  <<4>> \o BIG_tobytes(1) \o BIG_tobytes(1) \o tail,
                  <<4>> \o BIG_tobytes(CURVE_GX + Modulus) \o BIG_tobytes(CURVE_GY)
                        \o tail,
                  [i \in 1..PointG1_BYTES_REPR_SIZE |-> ByteBase - 1]}
            \cup OtherLengths(enc)

\* byte strings handed to PointG2::from_bytes and the from_bytes of Generator
\* and VerKey
G2Bytes ==
    LET enc == PointG2_to_bytes(G2Base)
    IN  {PointG2_to_bytes(P) : P \in CurvePoints}
            \cup {BIG_tobytes(1) \o BIG_tobytes(0) \o BIG_tobytes(1) \o BIG_tobytes(0),
                  [enc EXCEPT ![2 * MODBYTES] = 1],
                  [i \in 1..PointG2_BYTES_REPR_SIZE |-> ByteBase - 1]}
            \cup OtherLengths(enc)

DecoderInputs(kind) ==
    CASE kind \in {"Scalar", "SignKey"} -> ScalarBytes
      [] kind \in {"G1", "Signature", "MultiSignature", "ProofOfPossession"} -> G1Bytes
      [] kind \in {"G2", "Generator", "VerKey"} -> G2Bytes

\* T::from_bytes(input) and, when that succeeds, the bytes of the result
FromBytes ==
    /\ pc # "done"
    /\ \E kind \in Kinds : \E input \in DecoderInputs(kind) :
          LET decoded == Decode(kind, input)
          IN  call' = [op |-> "from_bytes", kind |-> kind, input |-> input,
                       decoded |-> decoded,
                       reencoded |-> IF decoded.ok THEN Encode(kind, decoded.val)
                                     ELSE <<>>]
    /\ pc' = "done"
    /\ UNCHANGED <<nkeys, gen, sks, vks, msg, sigs, pops, signers, multi>>

\* GroupOrderElement::new_from_seed(seed) and SignKey::new(Some(seed))
NewFromSeed ==
    /\ pc # "done"
    /\ \E seed \in SeedInputs :
          call' = [op |-> "new_from_seed", seed |-> seed,
                   element |-> GroupOrderElement_new_from_seed(seed),
                   sign_key |-> SignKey_new(Some(seed), 0)]
    /\ pc' = "done"
    /\ UNCHANGED <<nkeys, gen, sks, vks, msg, sigs, pops, signers, multi>>

\* the scalars the library gives: random, seeded, decoded
Scalars ==
    {GroupOrderElement_new(rnd) : rnd \in RandomDraws}
        \cup {GroupOrderElement_new_from_seed(seed).val : seed \in Seeds}
        \cup {GroupOrderElement_from_bytes(b).val :
                 b \in {c \in ScalarBytes : GroupOrderElement_from_bytes(c).ok}}

\* a.inverse()
Inverse ==
    /\ pc # "done"
    /\ \E a \in Scalars :
          call' = [op |-> "inverse", a |-> a, result |-> GroupOrderElement_inverse(a)]
    /\ pc' = "done"
    /\ UNCHANGED <<nkeys, gen, sks, vks, msg, sigs, pops, signers, multi>>

\* a.sub_mod(&b)
SubMod ==
    /\ pc # "done"
    /\ \E a \in Scalars, b \in Scalars :
          call' = [op |-> "sub_mod", a |-> a, b |-> b,
                   result |-> GroupOrderElement_sub_mod(a, b)]
    /\ pc' = "done"
    /\ UNCHANGED <<nkeys, gen, sks, vks, msg, sigs, pops, signers, multi>>

\* a == b
Equals ==
    /\ pc # "done"
    /\ \E a \in Scalars, b \in Scalars :
          call' = [op |-> "eq", a |-> a, b |-> b, result |-> GroupOrderElement_eq(a, b)]
    /\ pc' = "done"
    /\ UNCHANGED <<nkeys, gen, sks, vks, msg, sigs, pops, signers, multi>>

InitCodec == Start(0)

NextCodec ==
    \/ FromBytes
    \/ NewFromSeed
    \/ Inverse
    \/ SubMod
    \/ Equals

SpecCodec == InitCodec /\ [][NextCodec]_vars

\* ========================================================================
\* The rogue-key session: one signer makes a key pair, signs a message and
\* proves possession; an adversary who holds only the public values picks a
\* scalar x, hands in the ver key x * gen - vk_1 and the point x * H(m) as
\* bytes, and the verifier calls verify_multi_sig on the two ver keys.

\* VerKey::from_bytes(bytes of the point).unwrap()
VerKeyOf(point) == VerKey_from_bytes(PointG2_to_bytes(point)).val

\* the ver key x * gen - vk, as the adversary computes it
RogueKey(x, vk) ==
    VerKeyOf(PointG2_sub(PointG2_mul(gen.point, GroupOrderElement_new(x)), vk.point))

\* the point x * H(message), handed in through MultiSignature::from_bytes
ForgedMultiSig(x, message) ==
    MultiSignature_from_bytes(
        PointG1_to_bytes(PointG1_mul(Bls_hash(message, "Sha256").val,
                                     GroupOrderElement_new(x)))).val

\* Bls::verify_multi_sig(&forged, message, &[&vk_1, &rogue], &gen)
RogueMultiSig ==
    /\ pc = "ready"
    /\ \E x \in RandomDraws, message \in Messages :
          LET rogue == RogueKey(x, vks[1])
              forged == ForgedMultiSig(x, message)
          IN  /\ vks' = Append(vks, rogue)
              /\ multi' = forged
              /\ call' = [op |-> "rogue_multi_sig", x |-> x, message |-> message,
                          result |-> Bls_verify_multi_sig(forged, message,
                                                          <<vks[1], rogue>>, gen)]
    /\ pc' = "done"
    /\ UNCHANGED <<nkeys, gen, sks, msg, sigs, pops, signers>>

InitRogue == Start(1)

NextRogue ==
    \/ GeneratorNew
    \/ GeneratorFromBytes
    \/ SignKeyNew
    \/ SignKeyNewSeed
    \/ VerKeyNew
    \/ Sign
    \/ PopNew
    \/ RogueMultiSig

SpecRogue == InitRogue /\ [][NextRogue]_vars

\* ========================================================================
\* Calls of the pairing layer, as its tests make them, on scalars and points
\* drawn from the values the constructors give: one call in each behaviour.

\* the points PointG1::new, new_inf and from_bytes give
G1Points ==
    {PointG1_new(rnd) : rnd \in RandomDraws}
        \cup {PointG1_new_inf}
        \cup {PointG1_from_bytes(b).val :
                 b \in {c \in G1Bytes : PointG1_from_bytes(c).ok}}

\* the points PointG2::new, new_inf and from_bytes give
G2Points ==
    {PointG2_new(rnd) : rnd \in RandomDraws}
        \cup {PointG2_new_inf}
        \cup {PointG2_from_bytes(b).val :
                 b \in {c \in G2Bytes : PointG2_from_bytes(c).ok}}

\* tests::pairing_definition_bilinearity
Bilinearity ==
    /\ pc # "done"
    /\ \E a \in Scalars, b \in Scalars, p \in G1Points, q \in G2Points :
          call' = [op |-> "bilinearity", a |-> a, b |-> b, p |-> p, q |-> q,
                   left |-> Pair_pair(PointG1_mul(p, a), PointG2_mul(q, b)),
                   right |-> Pair_pow(Pair_pair(p, q),
                                      GroupOrderElement_mul_mod(a, b).val)]
    /\ pc' = "done"
    /\ UNCHANGED <<nkeys, gen, sks, vks, msg, sigs, pops, signers, multi>>

\* tests::point_g1_infinity_test and point_g1_infinity_test2
InfinityG1 ==
    /\ pc # "done"
    /\ \E p \in G1Points, q \in G1Points :
          call' = [op |-> "infinity_g1", p |-> p, q |-> q,
                   result |-> PointG1_add(PointG1_new_inf, q),
                   result2 |-> PointG1_add(PointG1_sub(p, p), q)]
    /\ pc' = "done"
    /\ UNCHANGED <<nkeys, gen, sks, vks, msg, sigs, pops, signers, multi>>

\* tests::point_g2_infinity_test
InfinityG2 ==
    /\ pc # "done"
    /\ \E q \in G2Points :
          call' = [op |-> "infinity_g2", q |-> q,
                   result |-> PointG2_add(PointG2_new_inf, q)]
    /\ pc' = "done"
    /\ UNCHANGED <<nkeys, gen, sks, vks, msg, sigs, pops, signers, multi>>

\* tests::inverse_for_pairing
InverseForPairing ==
    /\ pc # "done"
    /\ \E p1 \in G1Points, q1 \in G2Points, p2 \in G1Points, q2 \in G2Points :
          LET pair1 == Pair_pair(p1, q1)
              pair2 == Pair_pair(p2, q2)
              pair_result == Pair_mul(pair1, pair2)
          IN  call' = [op |-> "inverse_for_pairing", pair1 |-> pair1, pair2 |-> pair2,
                       pair3 |-> Pair_mul(pair_result, Pair_inverse(pair1))]
    /\ pc' = "done"
    /\ UNCHANGED <<nkeys, gen, sks, vks, msg, sigs, pops, signers, multi>>

\* digests handed to PointG1::from_hash: the digests of the messages and byte
\* strings of at most MODBYTES bytes, some of them abscissas of no point
HashInputs ==
    {Sha256(m) : m \in Messages} \cup {Keccak256(m) : m \in Messages}
        \cup {b \in ScalarBytes : Len(b) <= MODBYTES}
        \cup {BIG_tobytes(x) : x \in 0..(2 * Modulus)}

\* PointG1::from_hash(hash), twice
FromHash ==
    /\ pc # "done"
    /\ \E hash \in HashInputs :
          call' = [op |-> "from_hash", hash |-> hash,
                   result |-> PointG1_from_hash(hash),
                   again |-> PointG1_from_hash(hash)]
    /\ pc' = "done"
    /\ UNCHANGED <<nkeys, gen, sks, vks, msg, sigs, pops, signers, multi>>

NextPair ==
    \/ Bilinearity
    \/ InfinityG1
    \/ InfinityG2
    \/ InverseForPairing
    \/ FromHash

SpecPair == InitCodec /\ [][NextPair]_vars

\* ========================================================================
\* wasm/bls.rs: the functions exported to JavaScript.  A JsValue is null or
\* the serialization of a value; a call returns Ok(value), an error value
\* holding the error code, or aborts.

JsNull == [js |-> "null"]

\* JsValue::from_serde(&x)
JsOf(kind, x) == [js |-> "object", kind |-> kind, val |-> x]

\* val.into_serde::<T>(): succeeds when the fields are those of T (Signature,
\* MultiSignature and ProofOfPossession have the same fields, Generator and
\* VerKey too)
into_serde(val, kind) ==
    LET Shape(k) ==
            CASE k \in {"Signature", "MultiSignature", "ProofOfPossession"} -> "G1"
              [] k \in {"Generator", "VerKey"} -> "G2"
              [] OTHER -> k
    IN  IF val.js = "object" /\ Shape(val.kind) = Shape(kind)
        THEN Ok(val.val)
        ELSE Err("serde")

convert_from_js(val, kind) ==
    LET unwrapped == into_serde(val, kind)
    IN  IF unwrapped.ok THEN unwrapped ELSE Err(InvalidStructure)

\* impl From<IndyCryptoError> for JsValue: the error code
JsError(err) == [ok |-> FALSE, code |-> to_error_code(err)]

\* Result::unwrap of an Err: the call aborts and returns nothing
Panic == [ok |-> FALSE, panic |-> TRUE]

\* the JsValues handed to the functions: null and one value of each type
JsInputs ==
    LET g == Generator_new(1).val
        sk == SignKey_new(None, 2).val
        vk == VerKey_new(g, sk).val
        sig == Bls_sign(<<1, 2, 3, 4, 5>>, sk).val
    IN  {JsNull, JsOf("Generator", g), JsOf("SignKey", sk), JsOf("VerKey", vk),
         JsOf("Signature", sig), JsOf("MultiSignature", MultiSignature_new(<<sig>>).val)}

\* Vec<JsValue>, at most MaxList long
JsLists == UNION {[1..n -> JsInputs] : n \in 0..MaxList}

blsVerKey ==
    /\ pc # "done"
    /\ \E generator \in JsInputs, signKey \in JsInputs :
          LET g == convert_from_js(generator, "Generator")
              sk == convert_from_js(signKey, "SignKey")
          IN  call' = [op |-> "blsVerKey", generator |-> generator, signKey |-> signKey,
                       result |->
                           IF ~g.ok THEN JsError(g.err)
                           ELSE IF ~sk.ok THEN JsError(sk.err)
                           ELSE Ok(JsOf("VerKey", VerKey_new(g.val, sk.val).val))]
    /\ pc' = "done"
    /\ UNCHANGED <<nkeys, gen, sks, vks, msg, sigs, pops, signers, multi>>

blsMultiSignature ==
    /\ pc # "done"
    /\ \E signatures \in JsLists :
          LET items == [i \in DOMAIN signatures |-> into_serde(signatures[i], "Signature")]
          IN  call' = [op |-> "blsMultiSignature", signatures |-> signatures,
                       result |->
                           IF \E i \in DOMAIN items : ~items[i].ok THEN Panic
                           ELSE Ok(JsOf("MultiSignature",
                                        MultiSignature_new(
                                            [i \in DOMAIN items |-> items[i].val]).val))]
    /\ pc' = "done"
    /\ UNCHANGED <<nkeys, gen, sks, vks, msg, sigs, pops, signers, multi>>

blsVerifyMultiSig ==
    /\ pc # "done"
    /\ \E multiSig \in JsInputs, message \in Messages, verKeys \in JsLists,
          generator \in JsInputs :
          LET ms == convert_from_js(multiSig, "MultiSignature")
              ks == [i \in DOMAIN verKeys |-> convert_from_js(verKeys[i], "VerKey")]
              g == convert_from_js(generator, "Generator")
          IN  call' = [op |-> "blsVerifyMultiSig", multiSig |-> multiSig,
                       message |-> message, verKeys |-> verKeys,
                       generator |-> generator,
                       result |->
                           IF ~ms.ok THEN JsError(ms.err)
                           ELSE IF \E i \in DOMAIN ks : ~ks[i].ok THEN Panic
                           ELSE IF ~g.ok THEN JsError(g.err)
                           ELSE LET r == Bls_verify_multi_sig(
                                             ms.val, message,
                                             [i \in DOMAIN ks |-> ks[i].val], g.val)
                                IN  IF r.ok THEN r ELSE JsError(r.err)]
    /\ pc' = "done"
    /\ UNCHANGED <<nkeys, gen, sks, vks, msg, sigs, pops, signers, multi>>

NextWasm ==
    \/ blsVerKey
    \/ blsMultiSignature
    \/ blsVerifyMultiSig

SpecWasm == InitCodec /\ [][NextWasm]_vars

\* ========================================================================
\* Claims about signing, verification and proofs of possession (Spec)

IsZeroKey(sk) == sk.group_order_element.bn % CURVE_ORDER = 0

\* a session whose generator is not the identity and whose sign keys are not
\* zero modulo the group order
ProperSession ==
    /\ gen # Nil
    /\ ~gen.point.inf
    /\ \A i \in 1..Len(sks) : ~IsZeroKey(sks[i])

IsMultiCall == call.op = "verify_multi_sig"

\* C1: a signature made with a sign key on a message verifies, on that
\* message, under the ver key made from the same sign key and the generator:
\* Bls::verify returns Ok(true), whatever the key, message and generator.
C1_SignVerifyCorrect ==
    (call.op = "verify" /\ call.sig = call.key /\ call.message = msg)
        => call.result = Ok(TRUE)

\* the case has happened for a seeded, non-zero key and a proper generator
C1_Witness ==
    /\ call.op = "verify" /\ call.sig = call.key /\ call.message = msg
    /\ call.result = Ok(TRUE)
    /\ \E seed \in Seeds : sks[call.sig] = SignKey_new(Some(seed), 0).val
    /\ ~IsZeroKey(sks[call.sig])
    /\ ~gen.point.inf

\* C3: the proof of possession made from a ver key and its sign key is
\* accepted for that ver key: Bls::verify_proof_of_posession returns Ok(true).
C3_PopCorrect ==
    (call.op = "verify_pop" /\ call.pop = call.key) => call.result = Ok(TRUE)

C3_Witness ==
    /\ call.op = "verify_pop" /\ call.pop = call.key
    /\ call.result = Ok(TRUE)
    /\ ~IsZeroKey(sks[call.pop])
    /\ ~gen.point.inf

\* C4 (as claimed): a signature on msg checked against another message, under
\* the signer's own ver key, is rejected: Bls::verify returns Ok(false); and
\* an aggregate of signatures on msg checked against another message, under
\* the signers' ver keys, is rejected: Bls::verify_multi_sig returns Ok(false).
C4_Claim_OtherMessageRejected ==
    /\ (call.op = "verify" /\ call.sig = call.key /\ call.message # msg)
           => call.result = Ok(FALSE)
    /\ (IsMultiCall /\ Len(signers) >= 1 /\ call.keys = signers /\ call.message # msg)
           => call.result = Ok(FALSE)

\* C5 (as claimed): a signature checked under the ver key of a different sign
\* key is rejected: Bls::verify returns Ok(false).
C5_Claim_OtherKeyRejected ==
    (/\ call.op = "verify"
     /\ call.message = msg
     /\ sks[call.key].group_order_element # sks[call.sig].group_order_element)
        => call.result = Ok(FALSE)

\* C9 (as claimed): the point of ProofOfPossession::new(vk, sk) differs from
\* the point of Bls::sign(vk.as_bytes(), sk), for every sign key.
C9_Claim_DomainSeparation ==
    \A i \in 1..Len(pops) :
        pops[i].point # Bls_sign(vks[i].bytes, sks[i]).val.point

\* ========================================================================
\* Claims about multi-signatures (SpecMulti)

\* C2: the aggregate of the signatures of n >= 1 signers on one message
\* verifies on that message under the signers' ver keys:
\* Bls::verify_multi_sig returns Ok(true).
C2_AggregateCorrect ==
    (IsMultiCall /\ Len(signers) >= 1 /\ call.keys = signers /\ call.message = msg)
        => call.result = Ok(TRUE)

C2_Witness ==
    /\ IsMultiCall /\ Len(signers) >= 2 /\ call.keys = signers /\ call.message = msg
    /\ call.result = Ok(TRUE)
    /\ ProperSession
    /\ sks[signers[1]] # sks[signers[2]]

\* C6 (as claimed): two signers sign the message; the aggregate checked
\* against the first signer's ver key and the ver key of another sign key,
\* different from the second signer's, is rejected: Ok(false).
C6_Claim_SubstitutedKeyRejected ==
    (/\ IsMultiCall /\ Len(signers) = 2 /\ Len(call.keys) = 2
     /\ call.message = msg
     /\ call.keys[1] = signers[1]
     /\ sks[call.keys[2]].group_order_element # sks[signers[2]].group_order_element)
        => call.result = Ok(FALSE)

\* each signature of the aggregate verifies under the ver key at its place
EachVerifies ==
    \A i \in DOMAIN signers :
        Bls_verify(sigs[signers[i]], call.message, vks[call.keys[i]], gen) = Ok(TRUE)

\* the verifier has checked the proof of possession of every ver key it uses
PopsChecked ==
    \A i \in DOMAIN call.keys :
        Bls_verify_proof_of_posession(pops[call.keys[i]], vks[call.keys[i]], gen)
            = Ok(TRUE)

\* C7 (as claimed): with checked proofs of possession, the aggregate verifies
\* if and only if every signature verifies under the ver key at its place.
C7_Claim_MultiIffEach ==
    (IsMultiCall /\ Len(call.keys) = Len(signers) /\ PopsChecked)
        => (call.result = Ok(TRUE) <=> EachVerifies)

\* C7 (amended): if every signature verifies under the ver key at its place,
\* the aggregate verifies under the list of those ver keys.
C7_EachImpliesMulti ==
    (IsMultiCall /\ Len(call.keys) = Len(signers) /\ PopsChecked /\ EachVerifies)
        => call.result = Ok(TRUE)

C7_Witness ==
    /\ IsMultiCall /\ Len(signers) = 2 /\ Len(call.keys) = 2
    /\ PopsChecked /\ EachVerifies
    /\ call.result = Ok(TRUE)
    /\ ProperSession
    /\ sks[signers[1]] # sks[signers[2]]

Reorderings(list) ==
    {q \in [DOMAIN list -> DOMAIN list] : \A i, j \in DOMAIN list : i # j => q[i] # q[j]}

Permuted(list, q) == [i \in DOMAIN list |-> list[q[i]]]

\* C8: the bytes of MultiSignature::new do not depend on the order of the
\* signatures, and the result of Bls::verify_multi_sig does not depend on the
\* order of the ver keys.
C8_OrderIndependent ==
    /\ multi # Nil =>
          \A q \in Reorderings(signers) :
              MultiSignature_new(ListOf(sigs, Permuted(signers, q))).val.bytes
                  = multi.bytes
    /\ IsMultiCall =>
          \A q \in Reorderings(call.keys) :
              Bls_verify_multi_sig(multi, call.message,
                                   ListOf(vks, Permuted(call.keys, q)), gen)
                  = call.result

C8_Witness ==
    /\ IsMultiCall /\ Len(signers) = 2 /\ Len(call.keys) = 2
    /\ ProperSession
    /\ sks[signers[1]] # sks[signers[2]]
    /\ sks[call.keys[1]] # sks[call.keys[2]]
    /\ ~multi.point.inf

\* ========================================================================
\* Claims about the encodings (Spec)

\* C10: for every Scalar, G1, G2, Generator, SignKey, VerKey, Signature,
\* MultiSignature and ProofOfPossession the library has produced, from_bytes
\* of its bytes succeeds, gives a value equal to it (the same scalar, the same
\* group element, the same cached bytes), and encoding that value again gives
\* the same bytes.
C10_RoundTrip ==
    call.op = "round_trip" =>
        /\ call.decoded = Ok(call.value)
        /\ call.reencoded = call.bytes

C10_Witness ==
    /\ call.op = "round_trip" /\ call.kind = "MultiSignature"
    /\ Len(signers) = 2
    /\ ProperSession
    /\ ~call.value.point.inf
    /\ call.decoded = Ok(call.value)
    /\ call.reencoded = call.bytes

\* ========================================================================
\* Claims about decoding, seeds and scalars (SpecCodec)

IsDecode == call.op = "from_bytes"

\* C11 (as claimed): whenever a decoder accepts a byte string, encoding the
\* decoded value gives back exactly that byte string.
C11_Claim_CanonicalEncoding ==
    (IsDecode /\ call.decoded.ok) => call.reencoded = call.input

Wrappers ==
    {"Generator", "SignKey", "VerKey", "Signature", "MultiSignature",
     "ProofOfPossession"}

\* the fixed width of the bytes of each type
Width(kind) == IF kind \in {"Scalar", "SignKey"} THEN MODBYTES ELSE 4 * MODBYTES

\* C12 (as claimed): the bytes of a SignKey are MODBYTES long and the bytes of
\* a Generator, VerKey, Signature, MultiSignature and ProofOfPossession are
\* 4 * MODBYTES long, however the value was made (new or from_bytes).
C12_Claim_FixedLength ==
    /\ (IsDecode /\ call.kind \in Wrappers /\ call.decoded.ok)
           => Len(call.decoded.val.bytes) = Width(call.kind)
    /\ (call.op = "new_from_seed" /\ call.sign_key.ok)
           => Len(call.sign_key.val.bytes) = MODBYTES

\* C13: GroupOrderElement::from_bytes gives, for an input of at most MODBYTES
\* bytes, the scalar whose value is the big-endian integer of the input (a
\* short input counts as padded with zero bytes on the left), and
\* InvalidStructure for every longer input.
C13_ScalarFromBytes ==
    (IsDecode /\ call.kind = "Scalar") =>
        IF Len(call.input) <= MODBYTES
        THEN call.decoded = Ok(GroupOrderElement(BIG_frombytes(call.input)))
        ELSE call.decoded = Err(InvalidStructure)

C13_Witness ==
    /\ IsDecode /\ call.kind = "Scalar"
    /\ Len(call.input) > 0 /\ Len(call.input) < MODBYTES
    /\ call.decoded.ok
    /\ call.decoded.val.bn = BIG_frombytes(call.input)
    /\ call.decoded.val.bn > 0

\* C14: the from_bytes of PointG1, PointG2, Generator, VerKey, Signature,
\* MultiSignature and ProofOfPossession give InvalidStructure, and no value,
\* for every input that is not 4 * MODBYTES long; the scalar decoders accept
\* shorter inputs.
C14_ExactLength ==
    /\ (IsDecode /\ call.kind \notin {"Scalar", "SignKey"}
            /\ Len(call.input) # 4 * MODBYTES)
           => call.decoded = Err(InvalidStructure)
    /\ (IsDecode /\ call.kind \in {"Scalar", "SignKey"}
            /\ Len(call.input) < MODBYTES)
           => call.decoded.ok

C14_Witness ==
    /\ IsDecode /\ call.kind = "G2"
    /\ Len(call.input) = 4 * MODBYTES - 1
    /\ call.decoded = Err(InvalidStructure)

\* C15: new_from_seed and SignKey::new(Some(seed)) succeed for a seed of
\* exactly MODBYTES bytes and give an error with the code
\* CommonInvalidStructure for a seed of any other length.
C15_SeedLength ==
    call.op = "new_from_seed" =>
        IF Len(call.seed) = MODBYTES
        THEN call.element.ok /\ call.sign_key.ok
        ELSE /\ ~call.element.ok
             /\ to_error_code(call.element.err) = CommonInvalidStructure
             /\ ~call.sign_key.ok
             /\ to_error_code(call.sign_key.err) = CommonInvalidStructure

C15_Witness ==
    /\ call.op = "new_from_seed"
    /\ call.seed = <<0, 1, 2>>
    /\ ~call.sign_key.ok
    /\ to_error_code(call.sign_key.err) = CommonInvalidStructure

\* C16 (as claimed): inverse of the zero scalar fails with InvalidStructure,
\* and inverse of a nonzero scalar a gives b with a * b = 1 modulo the group
\* order.
C16_Claim_Inverse ==
    call.op = "inverse" =>
        IF call.a.bn = 0
        THEN call.result = Err(InvalidStructure)
        ELSE /\ call.result.ok
             /\ (call.a.bn * call.result.val.bn) % CURVE_ORDER = 1

\* C17 (as claimed): a.sub_mod(b) is in [0, r) and equals (a - b) mod r, for
\* all scalars a and b the library gives.
C17_Claim_SubMod ==
    call.op = "sub_mod" =>
        /\ call.result.ok
        /\ call.result.val.bn \in 0..(CURVE_ORDER - 1)
        /\ call.result.val.bn = (call.a.bn - call.b.bn) % CURVE_ORDER

\* C18 (as claimed): two scalars compare equal if and only if they are equal
\* modulo the group order.
C18_Claim_EqualModOrder ==
    call.op = "eq" =>
        (call.result <=> (call.a.bn % CURVE_ORDER = call.b.bn % CURVE_ORDER))

\* ========================================================================
\* Claims about errors of verification (Spec) and of decoding (SpecCodec)

IsVerification == call.op \in {"verify", "verify_pop", "verify_multi_sig"}

\* C19: Bls::verify, Bls::verify_proof_of_posession and Bls::verify_multi_sig
\* return Ok(true) or Ok(false) on the values of a session, never an error: a
\* mismatch is Ok(false).
C19_MismatchIsValue ==
    IsVerification => call.result \in {Ok(TRUE), Ok(FALSE)}

C19_Witness ==
    /\ call.op = "verify" /\ call.sig # call.key
    /\ ProperSession
    /\ sks[call.sig].group_order_element.bn % CURVE_ORDER
           # sks[call.key].group_order_element.bn % CURVE_ORDER
    /\ call.result = Ok(FALSE)

\* the byte strings that are the encoding of a point
IsEncoding(kind, input) ==
    IF kind \in {"G1", "Signature", "MultiSignature", "ProofOfPossession"}
    THEN \E P \in CurvePoints : PointG1_to_bytes(P) = input
    ELSE \E P \in CurvePoints : PointG2_to_bytes(P) = input

\* C20 (as claimed): the from_bytes of PointG1, PointG2 and their wrappers
\* give InvalidStructure, and no value, for 4 * MODBYTES bytes that are not
\* the encoding of a point of the curve.
C20_Claim_OffCurveRejected ==
    (/\ IsDecode /\ call.kind \notin {"Scalar", "SignKey"}
     /\ Len(call.input) = 4 * MODBYTES
     /\ ~IsEncoding(call.kind, call.input))
        => call.decoded = Err(InvalidStructure)

\* ========================================================================
\* Claims about the empty aggregate and the generator (SpecMulti)

\* C21: MultiSignature::new of the empty list succeeds and gives the identity
\* of G1, and Bls::verify_multi_sig returns Ok(false) for that aggregate
\* whenever the sum of the ver keys is not the identity of G2.
C21_EmptyAggregate ==
    /\ MultiSignature_new(<<>>).ok
    /\ (multi # Nil /\ signers = <<>>) => PointG1_is_inf(multi.point)
    /\ (IsMultiCall /\ signers = <<>> /\ ~SumG2(ListOf(vks, call.keys)).inf)
           => call.result = Ok(FALSE)

C21_Witness ==
    /\ IsMultiCall /\ signers = <<>> /\ Len(call.keys) = 2
    /\ PointG1_is_inf(multi.point)
    /\ ~SumG2(ListOf(vks, call.keys)).inf
    /\ call.result = Ok(FALSE)

\* C22 (as claimed): the point of every Generator that Generator::new returns
\* is not the identity of G2, whatever random_mod_order returned.
C22_Claim_GeneratorNotIdentity ==
    gen \in {Generator_new(rnd).val : rnd \in RandomDraws} => ~gen.point.inf

\* ========================================================================
\* Claims about rogue keys (SpecRogue)

\* C23: Bls::verify_multi_sig checks no proof of possession: its result is the
\* same for every list of ver keys with the same sum, and the list of vk_1 and
\* the rogue key x * gen - vk_1 is accepted for the point x * H(m), whether or
\* not the owner of vk_1 signed m.
C23_RogueKeyAccepted ==
    call.op = "rogue_multi_sig" =>
        /\ call.result = Ok(TRUE)
        /\ \A A \in CurvePoints :
              LET B == PointG2_sub(SumG2(vks), A)
              IN  Bls_verify_multi_sig(multi, call.message,
                                       <<VerKeyOf(A), VerKeyOf(B)>>, gen)
                      = call.result

\* the adversary's scalar is not zero, the message is not the one the owner
\* signed, the owner's signature is not accepted for it, and the owner's proof
\* of possession is not accepted for the rogue key
C23_Witness ==
    /\ call.op = "rogue_multi_sig" /\ call.x # 0
    /\ ProperSession
    /\ call.message # msg
    /\ Bls_verify(sigs[1], call.message, vks[1], gen) = Ok(FALSE)
    /\ Bls_verify_proof_of_posession(pops[1], vks[2], gen) = Ok(FALSE)
    /\ ~vks[2].point.inf
    /\ call.result = Ok(TRUE)

\* ========================================================================
\* Claims about the pairing layer (SpecPair)

\* C24: the pairing is bilinear: Pair::pair(P.mul(a), Q.mul(b)) equals
\* Pair::pair(P, Q).pow(a.mul_mod(b)), for all scalars a, b and points P of
\* G1 and Q of G2.
C24_Bilinearity ==
    call.op = "bilinearity" => call.left = call.right

C24_Witness ==
    /\ call.op = "bilinearity"
    /\ call.a.bn > CURVE_ORDER /\ call.b.bn \in 2..(CURVE_ORDER - 1)
    /\ ~call.p.inf /\ ~call.q.inf
    /\ call.left = call.right
    /\ call.left # Pair_pair(call.p, call.q)
    /\ call.left # Pair_pair(PointG1_new_inf, call.q)

\* C25: the point at infinity is the identity of addition: new_inf().add(q)
\* and p.sub(p).add(q) equal q in G1, and new_inf().add(q) equals q in G2.
C25_InfinityIsIdentity ==
    /\ call.op = "infinity_g1" => (call.result = call.q /\ call.result2 = call.q)
    /\ call.op = "infinity_g2" => call.result = call.q

C25_Witness ==
    /\ call.op = "infinity_g1"
    /\ ~call.p.inf /\ ~call.q.inf /\ call.p # call.q
    /\ call.result2 = call.q

\* C26: Pair::inverse is the inverse of multiplication in GT:
\* t1.mul(t2).mul(t1.inverse()) equals t2 for all pairing values t1, t2.
C26_PairInverse ==
    call.op = "inverse_for_pairing" => call.pair3 = call.pair2

C26_Witness ==
    /\ call.op = "inverse_for_pairing"
    /\ call.pair1 # Pair_pair(PointG1_new_inf, PointG2_new_inf)
    /\ call.pair2 # Pair_pair(PointG1_new_inf, PointG2_new_inf)
    /\ call.pair1 # call.pair2
    /\ call.pair3 = call.pair2

\* ========================================================================
\* Claims about the cached bytes (SpecCodec) and hashing to G1 (SpecPair)

\* the encoding of the value a wrapper holds
ToBytesOfHeld(kind, x) ==
    CASE kind = "SignKey" -> GroupOrderElement_to_bytes(x.group_order_element)
      [] kind \in {"Generator", "VerKey"} -> PointG2_to_bytes(x.point)
      [] OTHER -> PointG1_to_bytes(x.point)

\* C27 (as claimed): as_bytes of a Generator, SignKey, VerKey, Signature,
\* MultiSignature or ProofOfPossession is the to_bytes encoding of the point
\* or scalar it holds, also when it was made by from_bytes.
C27_Claim_CachedBytesAgree ==
    (IsDecode /\ call.kind \in Wrappers /\ call.decoded.ok)
        => call.decoded.val.bytes = ToBytesOfHeld(call.kind, call.decoded.val)

\* the big-endian integer of the digest
DigestValue(hash) == BIG_frombytes(hash)

\* C28: for a digest of at most MODBYTES bytes PointG1::from_hash returns
\* ECP::new_big(s + k), s the integer of the digest and k >= 0 the smallest
\* increment for which that point is not the identity; the result is not the
\* identity and a second call gives the same point.
C28_FromHash ==
    (call.op = "from_hash" /\ Len(call.hash) <= MODBYTES) =>
        /\ call.result.ok
        /\ ~PointG1_is_inf(call.result.val)
        /\ \E k \in 0..Modulus :
              /\ call.result.val = ECP_new_big(DigestValue(call.hash) + k)
              /\ \A j \in 0..(k - 1) : ECP_new_big(DigestValue(call.hash) + j).inf
        /\ call.again = call.result

C28_Witness ==
    /\ call.op = "from_hash" /\ Len(call.hash) = MODBYTES
    /\ ECP_new_big(DigestValue(call.hash)).inf
    /\ ECP_new_big(DigestValue(call.hash) + 1).inf
    /\ call.result.ok /\ ~PointG1_is_inf(call.result.val)

\* ========================================================================
\* Claims about the empty lists (SpecMulti) and the wasm binding (SpecWasm)

\* C29: the aggregate of no signatures verifies against no ver keys:
\* Bls::verify_multi_sig(MultiSignature::new([]), m, [], g) returns Ok(true)
\* for every message m and generator g.
C29_EmptyAgainstEmpty ==
    (IsMultiCall /\ signers = <<>> /\ call.keys = <<>>) => call.result = Ok(TRUE)

C29_Witness ==
    /\ IsMultiCall /\ signers = <<>> /\ call.keys = <<>>
    /\ ProperSession
    /\ call.message # msg
    /\ call.result = Ok(TRUE)

\* an argument of the call does not deserialize to the type it is read as
HasUndecodable ==
    CASE call.op = "blsVerKey" ->
            \/ ~into_serde(call.generator, "Generator").ok
            \/ ~into_serde(call.signKey, "SignKey").ok
      [] call.op = "blsMultiSignature" ->
            \E i \in DOMAIN call.signatures :
                ~into_serde(call.signatures[i], "Signature").ok
      [] call.op = "blsVerifyMultiSig" ->
            \/ ~into_serde(call.multiSig, "MultiSignature").ok
            \/ ~into_serde(call.generator, "Generator").ok
            \/ \E i \in DOMAIN call.verKeys :
                   ~into_serde(call.verKeys[i], "VerKey").ok
      [] OTHER -> FALSE

\* C30 (as claimed): a call of the wasm binding with an argument that does not
\* deserialize, an element of the signatures of blsMultiSignature and of the
\* verKeys of blsVerifyMultiSig included, returns the error value with the
\* code CommonInvalidStructure and no result; no call aborts.
C30_Claim_UndecodableIsError ==
    /\ HasUndecodable => call.result = [ok |-> FALSE, code |-> CommonInvalidStructure]
    /\ call.op # "none" => call.result # Panic

====
